---------------------------- MODULE Spec2Model ----------------------------
(***************************************************************************)
(* Model of the securevault custody engine (src/src/lib.rs CustodySystem). *)
(*                                                                         *)
(* State: the wallet registry (HashMap<String, Wallet>) and the            *)
(* transaction log (Vec<Transaction>); okCalls counts, per method, the     *)
(* calls that have returned Ok so far.  pending is the transfer call that   *)
(* is under way when the steps of transfer are scheduled separately         *)
(* (ConcSpec); in Spec every call is one step and pending stays Idle.       *)
(*                                                                         *)
(* Amounts and balances are f64 in the source.  They are modelled by a     *)
(* binary floating-point format of the same shape with a short mantissa    *)
(* (Precision bits) and a small largest exponent (MaxExp): finite values   *)
(* are integers m * 2^e, results are rounded to nearest, ties to even,     *)
(* overflow gives an infinity, and NaN and both infinities are values.     *)
(* Comparisons with NaN are false, as in IEEE 754.                         *)
(*                                                                         *)
(* The timestamp field of Transaction (lib.rs:28, :126, :157) is a wall    *)
(* clock reading that the engine never reads back; it is left out of the   *)
(* record.                                                                 *)
(***************************************************************************)
EXTENDS Integers, Sequences, FiniteSets, TLC

VARIABLES wallets, transactions, okCalls, pending

vars == <<wallets, transactions, okCalls, pending>>

---------------------------------------------------------------------------
(* Bounds of the model *)

\* mantissa bits of the modelled floating-point format (f64 has 53)
Precision == 2

\* largest exponent of a finite value of the format: finite values are
\* m * 2^e with m < 2^Precision and e <= MaxExp
MaxExp == 1

\* largest length of the transaction log that is explored
MaxLog == 3

---------------------------------------------------------------------------
(* f64 *)

NaN == [cls |-> "nan", val |-> 0]

PosInf == [cls |-> "inf", val |-> 1]

NegInf == [cls |-> "inf", val |-> -1]

Fin(n) == [cls |-> "fin", val |-> n]

Zero == Fin(0)

IsNaN(x) == x.cls = "nan"

IsFinite(x) == x.cls = "fin"

RECURSIVE Pow2(_)
Pow2(n) == IF n <= 0 THEN 1 ELSE 2 * Pow2(n - 1)

MaxFinite == (Pow2(Precision) - 1) * Pow2(MaxExp)

\* the exact result n >= 0 rounded to the format: nearest, ties to even,
\* an infinity when the rounded value exceeds the largest finite value
RoundNat(n) ==
    IF n < Pow2(Precision) THEN Fin(n)
    ELSE LET e == CHOOSE k \in 1..(MaxExp + 2) :
                      Pow2(Precision + k - 1) <= n /\ n < Pow2(Precision + k)
             q == n \div Pow2(e)
             r == n % Pow2(e)
             half == Pow2(e - 1)
             up == r > half \/ (r = half /\ q % 2 = 1)
             m == (IF up THEN q + 1 ELSE q) * Pow2(e)
         IN  IF m > MaxFinite THEN PosInf ELSE Fin(m)

FNeg(x) == IF IsNaN(x) THEN NaN ELSE [cls |-> x.cls, val |-> 0 - x.val]

\* a + b
FAdd(a, b) ==
    IF IsNaN(a) \/ IsNaN(b) THEN NaN
    ELSE IF a.cls = "inf" /\ b.cls = "inf"
         THEN IF a.val = b.val THEN a ELSE NaN
    ELSE IF a.cls = "inf" THEN a
    ELSE IF b.cls = "inf" THEN b
    ELSE LET s == a.val + b.val
         IN  IF s >= 0 THEN RoundNat(s) ELSE FNeg(RoundNat(0 - s))

\* a - b
FSub(a, b) == FAdd(a, FNeg(b))

\* a < b
FLt(a, b) ==
    IF IsNaN(a) \/ IsNaN(b) THEN FALSE
    ELSE IF a.cls = "inf" THEN a.val < 0 /\ b # a
    ELSE IF b.cls = "inf" THEN b.val > 0
    ELSE a.val < b.val

\* a <= b
FLe(a, b) ==
    IF IsNaN(a) \/ IsNaN(b) THEN FALSE ELSE a = b \/ FLt(a, b)

\* a >= b
FGe(a, b) == FLe(b, a)

---------------------------------------------------------------------------
(* Inputs *)

Ids == {"w1", "w2"}

WalletType == {"Hot", "Cold"}

\* the address and wallet_type arguments that are tried
CreateArgs == {[address |-> "0xA", wallet_type |-> "Hot"],
               [address |-> "0xB", wallet_type |-> "Cold"]}

\* the mutating methods
Methods == {"create_wallet", "deposit", "withdraw", "transfer"}

TransactionType == {"Deposit", "Withdrawal"}

\* the f64 arguments that are tried
Amounts == {NaN, NegInf, Fin(-1), Zero, Fin(1), Fin(4), PosInf}

---------------------------------------------------------------------------
(* Results: Result<_, String>.  An error string is modelled by the format  *)
(* string that built it (msg) and the values formatted into it.            *)

Ok(v) == [ok |-> TRUE, val |-> v]

Err(e) == [ok |-> FALSE, err |-> e]

Unit == [tag |-> "unit"]

\* the value a running engine holds
Self == [wallets |-> wallets, transactions |-> transactions]

Out(self, result) == [self |-> self, result |-> result]

---------------------------------------------------------------------------
(* CustodySystem (lib.rs).  Each method is a function from the engine      *)
(* value and the arguments to the engine value after the call and the      *)
(* value returned.                                                         *)

\* CustodySystem::new
new == [wallets |-> << >>, transactions |-> << >>]

\* HashMap::insert
Insert(map, key, value) ==
    [k \in (DOMAIN map) \cup {key} |-> IF k = key THEN value ELSE map[k]]

Transaction(wallet_id, transaction_type, amount) ==
    [wallet_id |-> wallet_id, transaction_type |-> transaction_type,
     amount |-> amount]

wallet_exists(self, id) == id \in DOMAIN self.wallets

\* create_wallet without the contains_key check: the insert replaces the
\* registered wallet
create_wallet_overwrite(self, id, address, wallet_type) ==
    LET wallet == [id |-> id, address |-> address, balance |-> Zero,
                   wallet_type |-> wallet_type]
    IN  Out([self EXCEPT !.wallets = Insert(@, id, wallet)], Ok(wallet))

\* create_wallet that registers every wallet as Hot
create_wallet_always_hot(self, id, address, wallet_type) ==
    IF id \in DOMAIN self.wallets
    THEN Out(self, Err([msg |-> "Wallet with id '{}' already exists",
                        id |-> id]))
    ELSE LET wallet == [id |-> id, address |-> address, balance |-> Zero,
                        wallet_type |-> "Hot"]
         IN  Out([self EXCEPT !.wallets = Insert(@, id, wallet)], Ok(wallet))

create_wallet(self, id, address, wallet_type) ==
    IF id \in DOMAIN self.wallets
    THEN Out(self, Err([msg |-> "Wallet with id '{}' already exists",
                        id |-> id]))
    ELSE LET wallet == [id |-> id, address |-> address, balance |-> Zero,
                        wallet_type |-> wallet_type]
         IN  Out([self EXCEPT !.wallets = Insert(@, id, wallet)], Ok(wallet))

\* deposit that credits the wallet and records nothing
deposit_unlogged(self, id, amount) ==
    IF FLe(amount, Zero)
    THEN Out(self, Err([msg |-> "Deposit amount must be positive"]))
    ELSE IF id \in DOMAIN self.wallets
    THEN Out([self EXCEPT !.wallets[id].balance = FAdd(@, amount)], Ok(Unit))
    ELSE Out(self, Err([msg |-> "Wallet '{}' not found", id |-> id]))

\* deposit that records its transaction at the front of the log
deposit_prepend(self, id, amount) ==
    IF FLe(amount, Zero)
    THEN Out(self, Err([msg |-> "Deposit amount must be positive"]))
    ELSE IF id \in DOMAIN self.wallets
    THEN Out([self EXCEPT
                !.wallets[id].balance = FAdd(@, amount),
                !.transactions = <<Transaction(id, "Deposit", amount)>> \o @],
             Ok(Unit))
    ELSE Out(self, Err([msg |-> "Wallet '{}' not found", id |-> id]))

\* deposit that looks the wallet up before it checks the amount
deposit_lookup_first(self, id, amount) ==
    IF id \notin DOMAIN self.wallets
    THEN Out(self, Err([msg |-> "Wallet '{}' not found", id |-> id]))
    ELSE IF FLe(amount, Zero)
    THEN Out(self, Err([msg |-> "Deposit amount must be positive"]))
    ELSE Out([self EXCEPT
                !.wallets[id].balance = FAdd(@, amount),
                !.transactions = Append(@, Transaction(id, "Deposit", amount))],
             Ok(Unit))

\* deposit that writes its record before it has found the wallet
deposit_logging_unknown(self, id, amount) ==
    IF FLe(amount, Zero)
    THEN Out(self, Err([msg |-> "Deposit amount must be positive"]))
    ELSE IF id \in DOMAIN self.wallets
    THEN Out([self EXCEPT
                !.wallets[id].balance = FAdd(@, amount),
                !.transactions = Append(@, Transaction(id, "Deposit", amount))],
             Ok(Unit))
    ELSE Out([self EXCEPT
                !.transactions = Append(@, Transaction(id, "Deposit", amount))],
             Err([msg |-> "Wallet '{}' not found", id |-> id]))

\* deposit that credits every wallet of the registry
deposit_every_wallet(self, id, amount) ==
    IF FLe(amount, Zero)
    THEN Out(self, Err([msg |-> "Deposit amount must be positive"]))
    ELSE IF id \in DOMAIN self.wallets
    THEN Out([wallets |->
                 [w \in DOMAIN self.wallets |->
                     [self.wallets[w] EXCEPT !.balance = FAdd(@, amount)]],
              transactions |->
                 Append(self.transactions, Transaction(id, "Deposit", amount))],
             Ok(Unit))
    ELSE Out(self, Err([msg |-> "Wallet '{}' not found", id |-> id]))

\* deposit that refuses an amount the balance cannot hold
deposit_refusing_overflow(self, id, amount) ==
    IF FLe(amount, Zero)
    THEN Out(self, Err([msg |-> "Deposit amount must be positive"]))
    ELSE IF id \in DOMAIN self.wallets
    THEN IF IsFinite(FAdd(self.wallets[id].balance, amount))
         THEN Out([self EXCEPT
                     !.wallets[id].balance = FAdd(@, amount),
                     !.transactions =
                         Append(@, Transaction(id, "Deposit", amount))],
                  Ok(Unit))
         ELSE Out(self, Err([msg |-> "Deposit amount must be positive"]))
    ELSE Out(self, Err([msg |-> "Wallet '{}' not found", id |-> id]))

deposit(self, id, amount) ==
    IF FLe(amount, Zero)
    THEN Out(self, Err([msg |-> "Deposit amount must be positive"]))
    ELSE IF id \in DOMAIN self.wallets
    THEN Out([self EXCEPT
                !.wallets[id].balance = FAdd(@, amount),
                !.transactions = Append(@, Transaction(id, "Deposit", amount))],
             Ok(Unit))
    ELSE Out(self, Err([msg |-> "Wallet '{}' not found", id |-> id]))

\* withdraw that debits first and checks the balance afterwards
withdraw_debit_first(self, id, amount) ==
    IF FLe(amount, Zero)
    THEN Out(self, Err([msg |-> "Withdrawal amount must be positive"]))
    ELSE IF id \in DOMAIN self.wallets
    THEN LET debited == [self EXCEPT !.wallets[id].balance = FSub(@, amount)]
         IN  IF FGe(debited.wallets[id].balance, Zero)
             THEN Out([debited EXCEPT
                         !.transactions =
                             Append(@, Transaction(id, "Withdrawal", amount))],
                      Ok(Unit))
             ELSE Out(debited,
                      Err([msg |-> "Insufficient balance: {} available, {} requested",
                           available |-> self.wallets[id].balance,
                           requested |-> amount]))
    ELSE Out(self, Err([msg |-> "Wallet '{}' not found", id |-> id]))

\* withdraw that refuses to take the whole balance
withdraw_strict(self, id, amount) ==
    IF FLe(amount, Zero)
    THEN Out(self, Err([msg |-> "Withdrawal amount must be positive"]))
    ELSE IF id \in DOMAIN self.wallets
    THEN IF FLt(amount, self.wallets[id].balance)
         THEN Out([self EXCEPT
                     !.wallets[id].balance = FSub(@, amount),
                     !.transactions =
                         Append(@, Transaction(id, "Withdrawal", amount))],
                  Ok(Unit))
         ELSE Out(self,
                  Err([msg |-> "Insufficient balance: {} available, {} requested",
                       available |-> self.wallets[id].balance,
                       requested |-> amount]))
    ELSE Out(self, Err([msg |-> "Wallet '{}' not found", id |-> id]))

\* withdraw that closes a wallet it has emptied
withdraw_closing_empty(self, id, amount) ==
    IF FLe(amount, Zero)
    THEN Out(self, Err([msg |-> "Withdrawal amount must be positive"]))
    ELSE IF id \in DOMAIN self.wallets
    THEN IF FGe(self.wallets[id].balance, amount)
         THEN LET left == FSub(self.wallets[id].balance, amount)
                  kept == IF left = Zero
                          THEN DOMAIN self.wallets \ {id}
                          ELSE DOMAIN self.wallets
              IN  Out([wallets |->
                          [w \in kept |->
                              IF w = id
                              THEN [self.wallets[w] EXCEPT !.balance = left]
                              ELSE self.wallets[w]],
                       transactions |->
                          Append(self.transactions,
                                 Transaction(id, "Withdrawal", amount))],
                      Ok(Unit))
         ELSE Out(self,
                  Err([msg |-> "Insufficient balance: {} available, {} requested",
                       available |-> self.wallets[id].balance,
                       requested |-> amount]))
    ELSE Out(self, Err([msg |-> "Wallet '{}' not found", id |-> id]))

\* withdraw that refuses a Cold wallet
withdraw_hot_only(self, id, amount) ==
    IF FLe(amount, Zero)
    THEN Out(self, Err([msg |-> "Withdrawal amount must be positive"]))
    ELSE IF id \in DOMAIN self.wallets
    THEN IF FGe(self.wallets[id].balance, amount)
            /\ self.wallets[id].wallet_type = "Hot"
         THEN Out([self EXCEPT
                     !.wallets[id].balance = FSub(@, amount),
                     !.transactions =
                         Append(@, Transaction(id, "Withdrawal", amount))],
                  Ok(Unit))
         ELSE Out(self,
                  Err([msg |-> "Insufficient balance: {} available, {} requested",
                       available |-> self.wallets[id].balance,
                       requested |-> amount]))
    ELSE Out(self, Err([msg |-> "Wallet '{}' not found", id |-> id]))

\* withdraw whose error message formats the two amounts the other way round
withdraw_swapped_report(self, id, amount) ==
    IF FLe(amount, Zero)
    THEN Out(self, Err([msg |-> "Withdrawal amount must be positive"]))
    ELSE IF id \in DOMAIN self.wallets
    THEN IF FGe(self.wallets[id].balance, amount)
         THEN Out([self EXCEPT
                     !.wallets[id].balance = FSub(@, amount),
                     !.transactions =
                         Append(@, Transaction(id, "Withdrawal", amount))],
                  Ok(Unit))
         ELSE Out(self,
                  Err([msg |-> "Insufficient balance: {} available, {} requested",
                       available |-> amount,
                       requested |-> self.wallets[id].balance]))
    ELSE Out(self, Err([msg |-> "Wallet '{}' not found", id |-> id]))

withdraw(self, id, amount) ==
    IF FLe(amount, Zero)
    THEN Out(self, Err([msg |-> "Withdrawal amount must be positive"]))
    ELSE IF id \in DOMAIN self.wallets
    THEN IF FGe(self.wallets[id].balance, amount)
         THEN Out([self EXCEPT
                     !.wallets[id].balance = FSub(@, amount),
                     !.transactions =
                         Append(@, Transaction(id, "Withdrawal", amount))],
                  Ok(Unit))
         ELSE Out(self,
                  Err([msg |-> "Insufficient balance: {} available, {} requested",
                       available |-> self.wallets[id].balance,
                       requested |-> amount]))
    ELSE Out(self, Err([msg |-> "Wallet '{}' not found", id |-> id]))

\* transfer that calls withdraw and deposit without validating the wallets
\* and the source balance first
transfer_unvalidated(self, from_id, to_id, amount) ==
    IF FLe(amount, Zero)
    THEN Out(self, Err([msg |-> "Transfer amount must be positive"]))
    ELSE LET w == withdraw(self, from_id, amount) IN
         IF ~w.result.ok THEN w
         ELSE LET d == deposit(w.self, to_id, amount) IN
              IF ~d.result.ok THEN d
              ELSE Out(d.self, Ok(Unit))

\* transfer that looks the wallets up before it checks the amount
transfer_reordered(self, from_id, to_id, amount) ==
    IF ~wallet_exists(self, from_id)
    THEN Out(self, Err([msg |-> "Source wallet '{}' not found",
                        id |-> from_id]))
    ELSE IF ~wallet_exists(self, to_id)
    THEN Out(self, Err([msg |-> "Destination wallet '{}' not found",
                        id |-> to_id]))
    ELSE IF FLe(amount, Zero)
    THEN Out(self, Err([msg |-> "Transfer amount must be positive"]))
    ELSE LET source_balance == self.wallets[from_id].balance IN
         IF FLt(source_balance, amount)
         THEN Out(self,
                  Err([msg |-> "Insufficient balance in source wallet: {} available, {} requested",
                       available |-> source_balance, requested |-> amount]))
         ELSE LET w == withdraw(self, from_id, amount) IN
              IF ~w.result.ok THEN w
              ELSE LET d == deposit(w.self, to_id, amount) IN
                   IF ~d.result.ok THEN d
                   ELSE Out(d.self, Ok(Unit))

transfer(self, from_id, to_id, amount) ==
    IF FLe(amount, Zero)
    THEN Out(self, Err([msg |-> "Transfer amount must be positive"]))
    ELSE IF ~wallet_exists(self, from_id)
    THEN Out(self, Err([msg |-> "Source wallet '{}' not found",
                        id |-> from_id]))
    ELSE IF ~wallet_exists(self, to_id)
    THEN Out(self, Err([msg |-> "Destination wallet '{}' not found",
                        id |-> to_id]))
    ELSE LET source_balance == self.wallets[from_id].balance IN
         IF FLt(source_balance, amount)
         THEN Out(self,
                  Err([msg |-> "Insufficient balance in source wallet: {} available, {} requested",
                       available |-> source_balance, requested |-> amount]))
         ELSE LET w == withdraw(self, from_id, amount) IN
              IF ~w.result.ok THEN w
              ELSE LET d == deposit(w.self, to_id, amount) IN
                   IF ~d.result.ok THEN d
                   ELSE Out(d.self, Ok(Unit))

\* the orders in which HashMap::values may yield the wallets of keys S
Orders(S) ==
    {o \in [1..Cardinality(S) -> S] : \A i, j \in DOMAIN o : o[i] = o[j] => i = j}

RECURSIVE SumBalances(_, _, _)
SumBalances(self, order, acc) ==
    IF order = << >> THEN acc
    ELSE SumBalances(self, Tail(order),
                     FAdd(acc, self.wallets[Head(order)].balance))

\* self.wallets.values().map(|w| w.balance).sum(), the values yielded in
\* the given order
get_total_balance(self, order) == SumBalances(self, order, Zero)

\* Option<&Wallet>
Some(v) == [some |-> TRUE, val |-> v]

None == [some |-> FALSE]

get_wallet(self, id) ==
    IF id \in DOMAIN self.wallets THEN Some(self.wallets[id]) ELSE None

get_all_wallets(self) == self.wallets

RECURSIVE Reverse(_)
Reverse(seq) ==
    IF seq = << >> THEN << >> ELSE Append(Reverse(Tail(seq)), Head(seq))

\* get_wallet_transactions that yields the newest record first
get_wallet_transactions_reversed(self, wallet_id) ==
    Reverse(SelectSeq(self.transactions, LAMBDA t : t.wallet_id = wallet_id))

get_wallet_transactions(self, wallet_id) ==
    SelectSeq(self.transactions, LAMBDA t : t.wallet_id = wallet_id)

get_all_transactions(self) == self.transactions

wallet_count(self) == Cardinality(DOMAIN self.wallets)

\* the methods that take &self
Queries == {"get_wallet", "get_total_balance", "get_all_wallets",
            "get_wallet_transactions", "get_all_transactions",
            "wallet_count", "wallet_exists"}

\* the value a &self method returns
QueryValue(self, name, id, order) ==
    CASE name = "get_wallet" -> get_wallet(self, id)
      [] name = "get_total_balance" -> get_total_balance(self, order)
      [] name = "get_all_wallets" -> get_all_wallets(self)
      [] name = "get_wallet_transactions" -> get_wallet_transactions(self, id)
      [] name = "get_all_transactions" -> get_all_transactions(self)
      [] name = "wallet_count" -> wallet_count(self)
      [] name = "wallet_exists" -> wallet_exists(self, id)

\* a query that takes the records it returns out of the log
Query_draining(self, name, id, order) ==
    Out(IF name = "get_wallet_transactions"
        THEN [self EXCEPT
                !.transactions = SelectSeq(@, LAMBDA t : t.wallet_id # id)]
        ELSE self,
        QueryValue(self, name, id, order))

\* a call of a &self method: the engine it borrows and the value returned
Query(self, name, id, order) == Out(self, QueryValue(self, name, id, order))

\* no transfer is under way
Idle == [stage |-> "idle"]

---------------------------------------------------------------------------
(* The calls a client makes *)

\* the engine takes the value a call leaves, and a call that returns Ok is
\* counted under its name; a call that would grow the log beyond MaxLog is
\* not explored
Step(name, out) ==
    /\ Len(out.self.transactions) <= MaxLog
    /\ wallets' = out.self.wallets
    /\ transactions' = out.self.transactions
    /\ okCalls' = IF out.result.ok
                  THEN [okCalls EXCEPT ![name] = @ + 1] ELSE okCalls
    /\ UNCHANGED pending

CallCreateWallet(id, address, wallet_type) ==
    Step("create_wallet", create_wallet(Self, id, address, wallet_type))

CallDeposit(id, amount) == Step("deposit", deposit(Self, id, amount))

CallWithdraw(id, amount) == Step("withdraw", withdraw(Self, id, amount))

CallTransfer(from_id, to_id, amount) ==
    Step("transfer", transfer(Self, from_id, to_id, amount))

\* a query: the engine is left as it is
CallGetTotalBalance ==
    /\ \E order \in Orders(DOMAIN wallets) :
           get_total_balance(Self, order) \in
               {NaN, PosInf, NegInf} \cup {Fin(n) : n \in 0..MaxFinite}
    /\ UNCHANGED vars

\* a call of a &self method
CallQuery(name, id, order) ==
    LET out == Query(Self, name, id, order)
    IN  /\ wallets' = out.self.wallets
        /\ transactions' = out.self.transactions
        /\ UNCHANGED <<okCalls, pending>>

Init ==
    /\ wallets = new.wallets
    /\ transactions = new.transactions
    /\ okCalls = [n \in Methods |-> 0]
    /\ pending = Idle

Next ==
    \/ \E id \in Ids, args \in CreateArgs :
           CallCreateWallet(id, args.address, args.wallet_type)
    \/ \E id \in Ids, amount \in Amounts : CallDeposit(id, amount)
    \/ \E id \in Ids, amount \in Amounts : CallWithdraw(id, amount)
    \/ \E from_id \in Ids, to_id \in Ids, amount \in Amounts :
           CallTransfer(from_id, to_id, amount)
    \/ CallGetTotalBalance
    \/ \E name \in Queries, id \in Ids, order \in Orders(DOMAIN wallets) :
           CallQuery(name, id, order)

Spec == Init /\ [][Next]_vars

---------------------------------------------------------------------------
(* The steps of transfer scheduled one by one among the deposits and       *)
(* withdrawals of other callers.  Each deposit and withdraw is one step.   *)

\* the first call of transfer, lib.rs:207-227: the four checks; a call that
\* fails one of them returns its error and leaves nothing behind
TransferCheck(from_id, to_id, amount) ==
    /\ pending = Idle
    /\ ~FLe(amount, Zero)
    /\ wallet_exists(Self, from_id)
    /\ wallet_exists(Self, to_id)
    /\ LET source_balance == get_wallet(Self, from_id).val.balance
       IN  /\ ~FLt(source_balance, amount)
           /\ pending' = [stage |-> "withdraw", from_id |-> from_id,
                          to_id |-> to_id, amount |-> amount,
                          source_balance |-> source_balance]
    /\ UNCHANGED <<wallets, transactions, okCalls>>

\* lib.rs:229, self.withdraw(from_id, amount)?
TransferWithdraw ==
    /\ pending.stage = "withdraw"
    /\ LET w == withdraw(Self, pending.from_id, pending.amount)
       IN  /\ Len(w.self.transactions) <= MaxLog
           /\ wallets' = w.self.wallets
           /\ transactions' = w.self.transactions
           /\ pending' = IF w.result.ok
                         THEN [pending EXCEPT !.stage = "deposit"]
                         ELSE Idle
    /\ UNCHANGED okCalls

\* lib.rs:230-232, self.deposit(to_id, amount)?; Ok(())
TransferDeposit ==
    /\ pending.stage = "deposit"
    /\ LET d == deposit(Self, pending.to_id, pending.amount)
       IN  /\ Len(d.self.transactions) <= MaxLog
           /\ wallets' = d.self.wallets
           /\ transactions' = d.self.transactions
           /\ okCalls' = IF d.result.ok
                         THEN [okCalls EXCEPT !["transfer"] = @ + 1]
                         ELSE okCalls
    /\ pending' = Idle

\* both wallets have been registered
ConcInit ==
    /\ wallets = create_wallet(create_wallet(new, "w1", "0xA", "Hot").self,
                               "w2", "0xB", "Cold").self.wallets
    /\ transactions = new.transactions
    /\ okCalls = [n \in Methods |-> IF n = "create_wallet" THEN 2 ELSE 0]
    /\ pending = Idle

ConcNext ==
    \/ \E id \in Ids, amount \in Amounts : CallDeposit(id, amount)
    \/ \E id \in Ids, amount \in Amounts : CallWithdraw(id, amount)
    \/ \E from_id \in Ids, to_id \in Ids, amount \in Amounts :
           TransferCheck(from_id, to_id, amount)
    \/ TransferWithdraw
    \/ TransferDeposit

ConcSpec == ConcInit /\ [][ConcNext]_vars

---------------------------------------------------------------------------
(* The CustodySystem of the demonstration binary (main.rs): a registry      *)
(* with no log.                                                             *)

MainSelf == [wallets |-> wallets]

main_new == [wallets |-> << >>]

\* main.rs:30-39: HashMap::insert replaces the wallet an id already has
main_create_wallet(self, id, address, wallet_type) ==
    LET wallet == [id |-> id, address |-> address, balance |-> Zero,
                   wallet_type |-> wallet_type]
    IN  Out([self EXCEPT
               !.wallets = [k \in DOMAIN @ \cup {id} |->
                               IF k = id THEN wallet ELSE @[k]]],
            wallet)

main_deposit(self, id, amount) ==
    IF id \in DOMAIN self.wallets
    THEN Out([self EXCEPT !.wallets[id].balance = FAdd(@, amount)], Ok(Unit))
    ELSE Out(self, Err([msg |-> "Wallet not found"]))

main_withdraw(self, id, amount) ==
    IF id \in DOMAIN self.wallets
    THEN IF FGe(self.wallets[id].balance, amount)
         THEN Out([self EXCEPT !.wallets[id].balance = FSub(@, amount)],
                  Ok(Unit))
         ELSE Out(self, Err([msg |-> "Insufficient balance"]))
    ELSE Out(self, Err([msg |-> "Wallet not found"]))

\* a call on the engine of main.rs
MainStep(out) ==
    /\ wallets' = out.self.wallets
    /\ UNCHANGED <<transactions, okCalls, pending>>

MainCreateWallet(id, address, wallet_type) ==
    MainStep(main_create_wallet(MainSelf, id, address, wallet_type))

MainDeposit(id, amount) == MainStep(main_deposit(MainSelf, id, amount))

MainWithdraw(id, amount) == MainStep(main_withdraw(MainSelf, id, amount))

MainInit ==
    /\ wallets = main_new.wallets
    /\ transactions = << >>
    /\ okCalls = [n \in Methods |-> 0]
    /\ pending = Idle

MainNext ==
    \/ \E id \in Ids, args \in CreateArgs :
           MainCreateWallet(id, args.address, args.wallet_type)
    \/ \E id \in Ids, amount \in Amounts : MainDeposit(id, amount)
    \/ \E id \in Ids, amount \in Amounts : MainWithdraw(id, amount)

MainSpec == MainInit /\ [][MainNext]_vars

---------------------------------------------------------------------------
(* Properties.  Sums of amounts are taken in exact integer arithmetic.     *)

\* a is a prefix of b
IsPrefix(a, b) == Len(a) <= Len(b) /\ SubSeq(b, 1, Len(a)) = a

\* every record of wallet id (of every wallet when id is not an Id) in log
\* has a finite amount
FiniteLog(log, id) ==
    \A i \in DOMAIN log :
        (id \in Ids => log[i].wallet_id = id) => IsFinite(log[i].amount)

\* deposits minus withdrawals of wallet id (of every wallet when id is not
\* an Id) in log
RECURSIVE Net(_, _)
Net(log, id) ==
    IF log = << >> THEN 0
    ELSE LET t == log[Len(log)]
             rest == Net(SubSeq(log, 1, Len(log) - 1), id)
         IN  IF id \in Ids /\ t.wallet_id # id THEN rest
             ELSE IF t.transaction_type = "Deposit"
                  THEN rest + t.amount.val
                  ELSE rest - t.amount.val

RECURSIVE ExactTotal(_, _)
ExactTotal(ws, S) ==
    IF S = {} THEN 0
    ELSE LET id == CHOOSE x \in S : TRUE
         IN  ws[id].balance.val + ExactTotal(ws, S \ {id})

Registered == DOMAIN wallets

\* C1: every registered wallet's balance equals the sum of the amounts of
\* its Deposit records minus the sum of the amounts of its Withdrawal
\* records in the log.
C1_BalanceIsNetOfLog ==
    \A id \in Registered :
        /\ IsFinite(wallets[id].balance)
        /\ FiniteLog(transactions, id)
        /\ wallets[id].balance.val = Net(transactions, id)

\* C2: every registered wallet has balance >= 0 in every reachable state.
C2_BalanceNonNegative ==
    \A id \in Registered : FGe(wallets[id].balance, Zero)

\* C3: a transfer call that returns an error leaves every wallet and the
\* whole log as they were before the call.
C3_FailedTransferChangesNothing ==
    \A from_id \in Ids, to_id \in Ids, amount \in Amounts :
        LET out == transfer(Self, from_id, to_id, amount)
        IN  ~out.result.ok => out.self = Self

\* a transfer fails on its balance check in an engine that holds funds and
\* a non-empty log
C3_Witness ==
    \E from_id \in Registered, to_id \in Registered, amount \in Amounts :
        /\ from_id # to_id
        /\ transactions # << >>
        /\ FLt(Zero, wallets[from_id].balance)
        /\ FLt(wallets[from_id].balance, amount)
        /\ ~transfer(Self, from_id, to_id, amount).result.ok

\* C4: a successful transfer between two distinct registered wallets
\* decreases the source balance by exactly amount, increases the destination
\* balance by exactly amount, and extends the log by exactly Withdrawal(from,
\* amount) followed by Deposit(to, amount).
C4_TransferMovesExactAmount ==
    \A from_id \in Registered, to_id \in Registered, amount \in Amounts :
        LET out == transfer(Self, from_id, to_id, amount)
            src == wallets[from_id].balance
            dst == wallets[to_id].balance
            src2 == out.self.wallets[from_id].balance
            dst2 == out.self.wallets[to_id].balance
        IN  (from_id # to_id /\ out.result.ok) =>
                /\ IsFinite(amount) /\ IsFinite(src) /\ IsFinite(dst)
                /\ IsFinite(src2) /\ IsFinite(dst2)
                /\ src.val - src2.val = amount.val
                /\ dst2.val - dst.val = amount.val
                /\ out.self.transactions =
                       transactions \o
                           <<Transaction(from_id, "Withdrawal", amount),
                             Transaction(to_id, "Deposit", amount)>>

\* C5: transfer reports the first failing check in the order amount <= 0,
\* source not registered, destination not registered, source balance <
\* amount.
C5_TransferErrorOrder ==
    \A from_id \in Ids, to_id \in Ids, amount \in Amounts :
        LET result == transfer(Self, from_id, to_id, amount).result
        IN  IF FLe(amount, Zero)
            THEN result = Err([msg |-> "Transfer amount must be positive"])
            ELSE IF from_id \notin Registered
            THEN result = Err([msg |-> "Source wallet '{}' not found",
                               id |-> from_id])
            ELSE IF to_id \notin Registered
            THEN result = Err([msg |-> "Destination wallet '{}' not found",
                               id |-> to_id])
            ELSE FLt(wallets[from_id].balance, amount) =>
                     /\ ~result.ok
                     /\ result.err.msg =
                            "Insufficient balance in source wallet: {} available, {} requested"

\* a non-positive amount with both wallets absent, and a positive amount
\* with only the destination absent, in one engine
C5_Witness ==
    /\ Cardinality(Registered) = 1
    /\ transactions # << >>
    /\ \E from_id \in Registered, to_id \in Ids \ Registered :
           /\ ~transfer(Self, to_id, to_id, Zero).result.ok
           /\ ~transfer(Self, from_id, to_id, Fin(1)).result.ok
           /\ ~transfer(Self, to_id, from_id, Fin(-1)).result.ok

\* C6: create_wallet with a registered identifier fails with the "already
\* exists" error and leaves the registry (the wallet's address, category
\* and balance included) and the log unchanged.
C6_DuplicateCreateRejected ==
    \A id \in Registered, args \in CreateArgs :
        LET out == create_wallet(Self, id, args.address, args.wallet_type)
        IN  /\ out.result = Err([msg |-> "Wallet with id '{}' already exists",
                                 id |-> id])
            /\ out.self = Self

\* a registered wallet with funds, and a create_wallet call on its id with
\* another address and category
C6_Witness ==
    \E id \in Registered, args \in CreateArgs :
        /\ FLt(Zero, wallets[id].balance)
        /\ args.address # wallets[id].address
        /\ args.wallet_type # wallets[id].wallet_type
        /\ ~create_wallet(Self, id, args.address, args.wallet_type).result.ok

\* C7: a create_wallet, deposit or withdraw call that returns an error
\* leaves the registry and the log as they were before the call.
C7_FailedCallChangesNothing ==
    /\ \A id \in Ids, args \in CreateArgs :
           LET out == create_wallet(Self, id, args.address, args.wallet_type)
           IN  ~out.result.ok => out.self = Self
    /\ \A id \in Ids, amount \in Amounts :
           /\ LET out == deposit(Self, id, amount)
              IN  ~out.result.ok => out.self = Self
           /\ LET out == withdraw(Self, id, amount)
              IN  ~out.result.ok => out.self = Self

\* a withdraw of more than the positive balance of a registered wallet
C7_Witness ==
    \E id \in Registered, amount \in Amounts :
        /\ FLt(Zero, wallets[id].balance)
        /\ FLt(wallets[id].balance, amount)
        /\ transactions # << >>
        /\ ~withdraw(Self, id, amount).result.ok

\* C8: the log is as long as the successful deposits plus the successful
\* withdraws plus twice the successful transfers; a create_wallet call and
\* a failed call add no record, and each record added carries the wallet
\* id, the kind and the amount of its call.
C8_AuditCompleteness ==
    /\ Len(transactions) =
           okCalls["deposit"] + okCalls["withdraw"] + 2 * okCalls["transfer"]
    /\ \A id \in Ids, args \in CreateArgs :
           create_wallet(Self, id, args.address, args.wallet_type)
               .self.transactions = transactions
    /\ \A id \in Ids, amount \in Amounts :
           /\ LET out == deposit(Self, id, amount)
              IN  out.self.transactions =
                      IF out.result.ok
                      THEN Append(transactions,
                                  Transaction(id, "Deposit", amount))
                      ELSE transactions
           /\ LET out == withdraw(Self, id, amount)
              IN  out.self.transactions =
                      IF out.result.ok
                      THEN Append(transactions,
                                  Transaction(id, "Withdrawal", amount))
                      ELSE transactions
    /\ \A from_id \in Ids, to_id \in Ids, amount \in Amounts :
           LET out == transfer(Self, from_id, to_id, amount)
           IN  out.self.transactions =
                   IF out.result.ok
                   THEN transactions \o
                            <<Transaction(from_id, "Withdrawal", amount),
                              Transaction(to_id, "Deposit", amount)>>
                   ELSE transactions

\* a deposit and a transfer have succeeded
C8_Witness ==
    /\ okCalls["deposit"] >= 1
    /\ okCalls["transfer"] >= 1
    /\ Len(transactions) >= 3

\* C9: the log before a call is a prefix of the log after it.
C9_LogAppendOnly == [][IsPrefix(transactions, transactions')]_vars

\* a log of three records that are not all the same
C9_Witness ==
    /\ Len(transactions) >= 3
    /\ transactions[1] # transactions[2]
    /\ transactions[2] # transactions[3]

\* C10: get_total_balance returns the sum of the balances of the registered
\* wallets, and that sum is the total of the Deposit amounts minus the total
\* of the Withdrawal amounts of the log.
C10_TotalIsSumAndNet ==
    \A order \in Orders(Registered) :
        LET total == get_total_balance(Self, order)
        IN  /\ IsFinite(total)
            /\ \A id \in Registered : IsFinite(wallets[id].balance)
            /\ total.val = ExactTotal(wallets, Registered)
            /\ FiniteLog(transactions, "*")
            /\ total.val = Net(transactions, "*")

\* every balance of the registry ws is finite
FiniteBalances(ws) == \A id \in DOMAIN ws : IsFinite(ws[id].balance)

\* C11: every transfer call, successful or failing, leaves the sum of all
\* balances equal to its value before the call.
C11_TransferKeepsTotal ==
    \A from_id \in Ids, to_id \in Ids, amount \in Amounts :
        LET out == transfer(Self, from_id, to_id, amount)
        IN  FiniteBalances(wallets) =>
                /\ FiniteBalances(out.self.wallets)
                /\ ExactTotal(out.self.wallets, DOMAIN out.self.wallets) =
                       ExactTotal(wallets, Registered)

\* C12: a deposit of an amount > 0 on a registered wallet succeeds, increases
\* the balance of that wallet by exactly amount and appends exactly the
\* record Deposit(id, amount) to the log.
C12_DepositAddsExactAmount ==
    \A id \in Registered, amount \in Amounts :
        LET out == deposit(Self, id, amount)
            old == wallets[id].balance
            now == out.self.wallets[id].balance
        IN  FLt(Zero, amount) =>
                /\ out.result.ok
                /\ out.self.transactions =
                       Append(transactions, Transaction(id, "Deposit", amount))
                /\ (IsFinite(old) /\ IsFinite(amount)) =>
                       IsFinite(now) /\ now.val - old.val = amount.val

\* C13: deposit fails with the amount error whenever amount <= 0, also on
\* an unregistered id, and with the not-found error for a positive amount
\* on an unregistered id.
C13_DepositErrorOrder ==
    \A id \in Ids, amount \in Amounts :
        LET result == deposit(Self, id, amount).result
        IN  /\ FLe(amount, Zero) =>
                   result = Err([msg |-> "Deposit amount must be positive"])
            /\ (FLt(Zero, amount) /\ id \notin Registered) =>
                   result = Err([msg |-> "Wallet '{}' not found", id |-> id])

\* an engine with a funded wallet and an unregistered id, on which a zero
\* deposit and a positive deposit both fail
C13_Witness ==
    /\ transactions # << >>
    /\ \E id \in Ids \ Registered :
           /\ ~deposit(Self, id, Zero).result.ok
           /\ ~deposit(Self, id, Fin(1)).result.ok
    /\ \E id \in Registered : ~deposit(Self, id, Zero).result.ok

\* C14: withdraw reports the first failing check in the order amount <= 0,
\* id not registered, balance < amount, and the insufficient-balance error
\* carries the wallet's balance as available and the call's amount as
\* requested.
C14_WithdrawErrorOrder ==
    \A id \in Ids, amount \in Amounts :
        LET result == withdraw(Self, id, amount).result
        IN  IF FLe(amount, Zero)
            THEN result = Err([msg |-> "Withdrawal amount must be positive"])
            ELSE IF id \notin Registered
            THEN result = Err([msg |-> "Wallet '{}' not found", id |-> id])
            ELSE FLt(wallets[id].balance, amount) =>
                     result =
                         Err([msg |-> "Insufficient balance: {} available, {} requested",
                              available |-> wallets[id].balance,
                              requested |-> amount])

\* a withdraw of more than the positive balance of a registered wallet, next
\* to an unregistered id
C14_Witness ==
    /\ Registered # Ids
    /\ \E id \in Registered, amount \in Amounts :
           /\ FLt(Zero, wallets[id].balance)
           /\ FLt(wallets[id].balance, amount)
           /\ withdraw(Self, id, amount).result.err.available # amount

\* C15: a withdraw with 0 < amount <= balance on a registered wallet
\* succeeds, decreases the balance by exactly amount and appends exactly
\* the record Withdrawal(id, amount); withdrawing the whole balance leaves
\* the balance 0.
C15_WithdrawTakesExactAmount ==
    \A id \in Registered, amount \in Amounts :
        LET out == withdraw(Self, id, amount)
            old == wallets[id].balance
            now == out.self.wallets[id].balance
        IN  (FLt(Zero, amount) /\ FLe(amount, old)) =>
                /\ out.result.ok
                /\ out.self.transactions =
                       Append(transactions,
                              Transaction(id, "Withdrawal", amount))
                /\ (IsFinite(old) /\ IsFinite(amount)) =>
                       IsFinite(now) /\ old.val - now.val = amount.val
                /\ amount = old => now = Zero


\* number of records of wallet id among the first i records of log
CountUpTo(log, id, i) == Cardinality({j \in 1..i : log[j].wallet_id = id})

\* C16: get_wallet_transactions(id) returns exactly the records of the log
\* whose wallet_id is id, each once and in the order of the log; it is empty
\* for an id that is not registered or has no history; the results over all
\* ids together hold every record of the log exactly once.
C16_WalletHistoryIsFilteredLog ==
    /\ \A id \in Ids :
          LET r == get_wallet_transactions(Self, id)
          IN  /\ Len(r) = CountUpTo(transactions, id, Len(transactions))
              /\ \A k \in DOMAIN r : r[k].wallet_id = id
              /\ \A i \in DOMAIN transactions :
                    transactions[i].wallet_id = id =>
                        r[CountUpTo(transactions, id, i)] = transactions[i]
              /\ (id \notin Registered => r = << >>)
              /\ ((\A i \in DOMAIN transactions :
                      transactions[i].wallet_id # id) => r = << >>)
    /\ \A i \in DOMAIN transactions : transactions[i].wallet_id \in Ids
    /\ LET l1 == Len(get_wallet_transactions(Self, "w1"))
           l2 == Len(get_wallet_transactions(Self, "w2"))
       IN  l1 + l2 = Len(transactions)

\* two different records of w1 and a record of w2 between or around them
C16_Witness ==
    /\ Len(get_wallet_transactions(Self, "w1")) = 2
    /\ get_wallet_transactions(Self, "w1")[1]
           # get_wallet_transactions(Self, "w1")[2]
    /\ Len(get_wallet_transactions(Self, "w2")) = 1
    /\ transactions[1].wallet_id = "w2"

\* C17: a new engine has no wallets, an empty log and total 0.0; a registered
\* id stays registered in every later state, with wallet_exists true and
\* get_wallet returning its wallet; wallet_count is the number of
\* create_wallet calls that returned Ok.
C17_RegistryOnlyGrows ==
    /\ wallet_count(new) = 0
    /\ get_all_transactions(new) = << >>
    /\ get_total_balance(new, << >>) = Zero
    /\ [](wallet_count(Self) = okCalls["create_wallet"])
    /\ [](\A id \in Ids :
            /\ wallet_exists(Self, id) = (id \in Registered)
            /\ get_wallet(Self, id).some = (id \in Registered)
            /\ id \in Registered => get_wallet(Self, id).val = wallets[id])
    /\ [][\A id \in DOMAIN wallets : id \in DOMAIN wallets']_vars

\* both ids registered, a duplicate registration refused, money moved since
C17_Witness ==
    /\ wallet_count(Self) = 2
    /\ okCalls["create_wallet"] = 2
    /\ ~create_wallet(Self, "w1", "0xB", "Cold").result.ok
    /\ Len(transactions) = MaxLog

\* C18: create_wallet on an unregistered id returns, and registers under
\* that id, a wallet with exactly the id, address and category passed and
\* balance 0.0; the id, address and category of a registered wallet never
\* change afterwards.
C18_IdentityFieldsAreFixed ==
    /\ [](\A id \in Ids \ Registered, args \in CreateArgs :
            LET out == create_wallet(Self, id, args.address, args.wallet_type)
                wallet == [id |-> id, address |-> args.address,
                           balance |-> Zero, wallet_type |-> args.wallet_type]
            IN  /\ out.result = Ok(wallet)
                /\ out.self.wallets[id] = wallet
                /\ DOMAIN out.self.wallets = Registered \cup {id})
    /\ [](\A id \in Registered : wallets[id].id = id)
    /\ [][\A id \in DOMAIN wallets :
            /\ wallets'[id].id = wallets[id].id
            /\ wallets'[id].address = wallets[id].address
            /\ wallets'[id].wallet_type = wallets[id].wallet_type]_vars

\* a Cold wallet whose balance has changed since its registration, beside a
\* Hot one, while an id is still free
C18_Witness ==
    /\ "w1" \in Registered
    /\ "w2" \notin Registered
    /\ wallets["w1"].wallet_type = "Cold"
    /\ wallets["w1"].address = "0xB"
    /\ wallets["w1"].balance # Zero
    /\ okCalls["withdraw"] > 0

\* the engine with the category of each wallet replaced by c[id]
Recategorised(self, c) ==
    [self EXCEPT !.wallets =
        [id \in DOMAIN @ |-> [@[id] EXCEPT !.wallet_type = c[id]]]]

\* a wallet with its category blanked
Uncategorised(wallet) == [wallet EXCEPT !.wallet_type = "-"]

\* two engines that differ at most in the categories of their wallets
SameButCategory(a, b) ==
    /\ DOMAIN a.wallets = DOMAIN b.wallets
    /\ \A id \in DOMAIN a.wallets :
          Uncategorised(a.wallets[id]) = Uncategorised(b.wallets[id])
    /\ a.transactions = b.transactions

\* C19: the category of a wallet has no effect: an engine and the same
\* engine with any other categories answer every call alike (Ok or the same
\* Err) and end with the same balances and the same log.
C19_CategoryHasNoEffect ==
    LET others == {Recategorised(Self, c) :
                       c \in [Registered -> WalletType]} \ {Self}
    IN  /\ \A id \in Ids, args \in CreateArgs :
              LET a == create_wallet(Self, id, args.address, args.wallet_type)
              IN  \A other \in others, t \in WalletType :
                      LET b == create_wallet(other, id, args.address, t)
                      IN  /\ a.result.ok = b.result.ok
                          /\ ~a.result.ok => a.result = b.result
                          /\ a.result.ok =>
                                Uncategorised(a.result.val)
                                    = Uncategorised(b.result.val)
                          /\ SameButCategory(a.self, b.self)
        /\ \A id \in Ids, amount \in Amounts :
              LET a == deposit(Self, id, amount)
              IN  \A other \in others :
                      LET b == deposit(other, id, amount)
                      IN  /\ a.result = b.result
                          /\ SameButCategory(a.self, b.self)
        /\ \A id \in Ids, amount \in Amounts :
              LET a == withdraw(Self, id, amount)
              IN  \A other \in others :
                      LET b == withdraw(other, id, amount)
                      IN  /\ a.result = b.result
                          /\ SameButCategory(a.self, b.self)
        /\ \A from \in Ids, to \in Ids, amount \in Amounts :
              LET a == transfer(Self, from, to, amount)
              IN  \A other \in others :
                      LET b == transfer(other, from, to, amount)
                      IN  /\ a.result = b.result
                          /\ SameButCategory(a.self, b.self)
        /\ \A other \in others :
              /\ \A id \in Ids :
                    /\ get_wallet_transactions(Self, id)
                           = get_wallet_transactions(other, id)
                    /\ wallet_exists(Self, id) = wallet_exists(other, id)
              /\ \A order \in Orders(Registered) :
                    get_total_balance(Self, order)
                        = get_total_balance(other, order)

\* a Hot and a Cold wallet, each able to pay the other
C19_Witness ==
    /\ Registered = Ids
    /\ wallets["w1"].wallet_type # wallets["w2"].wallet_type
    /\ \E id \in Ids :
          /\ wallets[id].wallet_type = "Cold"
          /\ withdraw(Self, id, Fin(1)).result.ok
          /\ \E to \in Ids \ {id} : transfer(Self, id, to, Fin(1)).result.ok

\* C20: get_wallet, wallet_exists, wallet_count, get_total_balance,
\* get_all_wallets, get_wallet_transactions and get_all_transactions change
\* neither the registry (wallets and balances) nor the log.
C20_QueriesChangeNothing ==
    \A name \in Queries, id \in Ids, order \in Orders(Registered) :
        LET out == Query(Self, name, id, order)
        IN  /\ out.self.wallets = wallets
            /\ out.self.transactions = transactions

\* every query has something to return: wallets, balances and records
C20_Witness ==
    /\ Registered = Ids
    /\ get_wallet_transactions(Self, "w1") # << >>
    /\ get_wallet_transactions(Self, "w2") # << >>
    /\ get_wallet(Self, "w1").val.balance # Zero
    /\ \A order \in Orders(Registered) :
          get_total_balance(Self, order) # Zero


\* C21: no failure is fatal or latching: in every reachable state, a deposit
\* of a positive amount to a registered wallet succeeds, a create_wallet with
\* an unregistered id succeeds, and a withdraw with 0 < amount <= balance
\* from a registered wallet succeeds.
C21_NoFailureLatches ==
    /\ \A id \in Registered, amount \in Amounts :
          FLt(Zero, amount) => deposit(Self, id, amount).result.ok
    /\ \A id \in Ids \ Registered, args \in CreateArgs :
          create_wallet(Self, id, args.address, args.wallet_type).result.ok
    /\ \A id \in Registered, amount \in Amounts :
          FLt(Zero, amount) /\ FLe(amount, wallets[id].balance) =>
              withdraw(Self, id, amount).result.ok

\* a state in which calls of all four methods fail, while a deposit, a
\* registration and a withdrawal of the whole balance are due to succeed
C21_Witness ==
    /\ Registered = {"w1"}
    /\ wallets["w1"].balance = Fin(1)
    /\ ~create_wallet(Self, "w1", "0xA", "Hot").result.ok
    /\ ~deposit(Self, "w2", Fin(1)).result.ok
    /\ ~withdraw(Self, "w1", Fin(4)).result.ok
    /\ ~transfer(Self, "w1", "w2", Fin(1)).result.ok
    /\ withdraw(Self, "w1", Fin(1)).result.ok
    /\ okCalls["withdraw"] > 0

\* C22: every record of the log has a strictly positive amount and a kind
\* that is Deposit or Withdrawal.
C22_RecordsArePositive ==
    \A i \in DOMAIN transactions :
        /\ FLt(Zero, transactions[i].amount)
        /\ transactions[i].transaction_type \in TransactionType

\* C23: in transfer, once the four checks have passed the internal withdraw
\* and the internal deposit both succeed; transfer never returns an error
\* after having changed a balance or the log, and never debits the source
\* without crediting the destination.
C23_TransferChecksSuffice ==
    \A from_id \in Ids, to_id \in Ids, amount \in Amounts :
        LET out == transfer(Self, from_id, to_id, amount)
            passed == /\ ~FLe(amount, Zero)
                      /\ wallet_exists(Self, from_id)
                      /\ wallet_exists(Self, to_id)
                      /\ ~FLt(wallets[from_id].balance, amount)
            w == withdraw(Self, from_id, amount)
        IN  /\ passed =>
                  /\ w.result.ok
                  /\ deposit(w.self, to_id, amount).result.ok
                  /\ out.result.ok
            /\ ~out.result.ok => out.self = Self
            /\ out.result.ok =>
                  out.self.transactions =
                      transactions
                          \o <<Transaction(from_id, "Withdrawal", amount),
                               Transaction(to_id, "Deposit", amount)>>

\* C24: a transfer from a registered wallet to itself with
\* 0 < amount <= balance succeeds, leaves the balance as it was and appends
\* Withdrawal(id, amount) then Deposit(id, amount); with amount > balance it
\* fails with the insufficient-balance error and changes nothing.
C24_SelfTransferKeepsBalance ==
    \A id \in Registered, amount \in Amounts :
        LET out == transfer(Self, id, id, amount)
            balance == wallets[id].balance
        IN  /\ FLt(Zero, amount) /\ FLe(amount, balance) =>
                  /\ out.result.ok
                  /\ out.self.wallets[id].balance = balance
                  /\ out.self.transactions =
                         transactions
                             \o <<Transaction(id, "Withdrawal", amount),
                                  Transaction(id, "Deposit", amount)>>
            /\ FLt(Zero, amount) /\ FLt(balance, amount) =>
                  /\ out.result =
                         Err([msg |-> "Insufficient balance in source wallet: {} available, {} requested",
                              available |-> balance, requested |-> amount])
                  /\ out.self = Self

\* C25: the wallet id of every record of the log is a key of the registry,
\* so a wallet has no record before the create_wallet call that registered
\* it; no call adds a record for an id that is not registered after it.
C25_RecordsNameRegisteredWallets ==
    /\ \A i \in DOMAIN transactions : transactions[i].wallet_id \in Registered
    /\ \A id \in Ids \ Registered :
          /\ get_wallet_transactions(Self, id) = << >>
          /\ \A amount \in Amounts, other \in Ids :
                /\ deposit(Self, id, amount).self.transactions = transactions
                /\ withdraw(Self, id, amount).self.transactions = transactions
                /\ transfer(Self, id, other, amount).self.transactions
                       = transactions
                /\ transfer(Self, other, id, amount).self.transactions
                       = transactions

\* w1 has a history while w2 is still to be registered
C25_Witness ==
    /\ Registered = {"w1"}
    /\ Len(get_wallet_transactions(Self, "w1")) >= 2
    /\ okCalls["deposit"] > 0
    /\ ~deposit(Self, "w2", Fin(1)).result.ok

\* balances of the wallets of ws other than those of S
OtherBalances(ws, S) == [id \in DOMAIN ws \ S |-> ws[id].balance]

\* C26: a mutating call changes only the wallets it names: deposit(id) and
\* withdraw(id) leave the balance of every other wallet unchanged,
\* transfer(from, to) leaves every wallet other than from and to unchanged,
\* and create_wallet changes no existing balance and appends nothing.
C26_OnlyNamedWalletsChange ==
    /\ \A id \in Ids, amount \in Amounts :
          /\ OtherBalances(deposit(Self, id, amount).self.wallets, {id})
                 = OtherBalances(wallets, {id})
          /\ OtherBalances(withdraw(Self, id, amount).self.wallets, {id})
                 = OtherBalances(wallets, {id})
    /\ \A from_id \in Ids, to_id \in Ids, amount \in Amounts :
          OtherBalances(transfer(Self, from_id, to_id, amount).self.wallets,
                        {from_id, to_id})
              = OtherBalances(wallets, {from_id, to_id})
    /\ \A id \in Ids, args \in CreateArgs :
          LET out == create_wallet(Self, id, args.address, args.wallet_type)
          IN  /\ OtherBalances(out.self.wallets, {id})
                     = OtherBalances(wallets, {id})
              /\ id \in Registered =>
                     out.self.wallets[id].balance = wallets[id].balance
              /\ out.self.transactions = transactions

\* two funded wallets: a deposit, a withdrawal and a transfer of one to
\* itself each succeed beside a wallet they do not name
C26_Witness ==
    /\ Registered = Ids
    /\ wallets["w1"].balance = Fin(1)
    /\ wallets["w2"].balance = Fin(4)
    /\ deposit(Self, "w1", Fin(1)).result.ok
    /\ withdraw(Self, "w1", Fin(1)).result.ok
    /\ transfer(Self, "w1", "w1", Fin(1)).result.ok


\* C27: with the three steps of transfer scheduled separately among the
\* deposits and withdrawals of other callers, in every intermediate state no
\* balance is negative and every balance is the net of the wallet's own
\* records in the log.
C27_InterleavedBalancesSound ==
    \A id \in Registered :
        /\ FGe(wallets[id].balance, Zero)
        /\ FiniteLog(transactions, id)
        /\ IsFinite(wallets[id].balance)
        /\ wallets[id].balance.val = Net(transactions, id)

\* C28 as stated: with the steps of transfer not atomic, (a) a step of
\* another caller can change the balance (when it is a number) that the
\* check has passed against before the internal withdraw runs, and (b)
\* after the internal withdraw has succeeded a step of another caller can
\* make the internal deposit fail, leaving the source debited with no
\* matching credit.
C28_DebitCanLoseItsCredit ==
    /\ pending.stage = "withdraw"
          /\ ~IsNaN(wallets[pending.from_id].balance) =>
          \E id \in Ids, amount \in Amounts :
              \/ deposit(Self, id, amount).self.wallets[pending.from_id].balance
                     # wallets[pending.from_id].balance
              \/ withdraw(Self, id, amount).self.wallets[pending.from_id].balance
                     # wallets[pending.from_id].balance
    /\ pending.stage = "deposit" =>
          \E id \in Ids, amount \in Amounts :
              \/ ~deposit(deposit(Self, id, amount).self,
                          pending.to_id, pending.amount).result.ok
              \/ ~deposit(withdraw(Self, id, amount).self,
                          pending.to_id, pending.amount).result.ok

\* C28 as amended: the transfer under way has passed its four checks; the
\* internal withdraw decides on the balance it finds, not on the balance
\* the check has read, and changes nothing when it fails; once it has
\* succeeded the internal deposit succeeds, whatever other callers have
\* done or do next.
C28_CreditAlwaysFollowsDebit ==
    /\ pending.stage \in {"withdraw", "deposit"} =>
          /\ ~FLe(pending.amount, Zero)
          /\ pending.from_id \in Registered
          /\ pending.to_id \in Registered
          /\ ~FLt(pending.source_balance, pending.amount)
    /\ pending.stage = "withdraw" =>
          LET w == withdraw(Self, pending.from_id, pending.amount)
          IN  /\ w.result.ok
                     = FGe(wallets[pending.from_id].balance, pending.amount)
              /\ ~w.result.ok => w.self = Self
    /\ pending.stage = "deposit" =>
          /\ deposit(Self, pending.to_id, pending.amount).result.ok
          /\ \A id \in Ids, amount \in Amounts :
                /\ deposit(deposit(Self, id, amount).self,
                           pending.to_id, pending.amount).result.ok
                /\ deposit(withdraw(Self, id, amount).self,
                           pending.to_id, pending.amount).result.ok

\* the check has passed against a balance that another caller has since
\* lowered, and the internal withdraw is about to refuse
C28_Witness ==
    /\ pending.stage = "withdraw"
    /\ IsFinite(pending.source_balance)
    /\ IsFinite(pending.amount)
    /\ wallets[pending.from_id].balance # pending.source_balance
    /\ FLt(wallets[pending.from_id].balance, pending.amount)
    /\ ~withdraw(Self, pending.from_id, pending.amount).result.ok


\* C29: in the engine of main.rs no sequence of create_wallet, deposit and
\* withdraw calls leaves a wallet with a negative balance, and a withdraw
\* of more than the balance fails with "Insufficient balance" and leaves
\* the balance unchanged.
C29_MainBalanceNonNegative ==
    /\ \A id \in Registered : ~FLt(wallets[id].balance, Zero)
    /\ \A id \in Registered, amount \in Amounts :
          FLt(wallets[id].balance, amount) =>
              LET out == main_withdraw(MainSelf, id, amount)
              IN  /\ out.result = Err([msg |-> "Insufficient balance"])
                  /\ out.self.wallets[id].balance = wallets[id].balance

\* C30: in the engine of main.rs, create_wallet with an id that is already
\* registered leaves the address, category and balance of the existing
\* wallet untouched.
C30_MainCreateKeepsExisting ==
    \A id \in Registered, args \in CreateArgs :
        LET out == main_create_wallet(MainSelf, id, args.address,
                                      args.wallet_type)
        IN  /\ out.self.wallets[id].address = wallets[id].address
            /\ out.self.wallets[id].wallet_type = wallets[id].wallet_type
            /\ out.self.wallets[id].balance = wallets[id].balance


\* C31: for every amount, NaN and the infinities included, deposit, withdraw
\* and transfer succeed only when the amount is strictly positive; a NaN
\* amount is rejected with the invalid-amount error and reaches neither a
\* balance nor the log.
C31_OnlyPositiveAmountsSucceed ==
    /\ \A id \in Ids, amount \in Amounts :
          /\ deposit(Self, id, amount).result.ok => FLt(Zero, amount)
          /\ withdraw(Self, id, amount).result.ok => FLt(Zero, amount)
    /\ \A from_id \in Ids, to_id \in Ids, amount \in Amounts :
          transfer(Self, from_id, to_id, amount).result.ok
              => FLt(Zero, amount)
    /\ \A id \in Registered, to_id \in Registered :
          LET d == deposit(Self, id, NaN)
              w == withdraw(Self, id, NaN)
              t == transfer(Self, id, to_id, NaN)
          IN  /\ d.result = Err([msg |-> "Deposit amount must be positive"])
              /\ w.result = Err([msg |-> "Withdrawal amount must be positive"])
              /\ t.result = Err([msg |-> "Transfer amount must be positive"])
              /\ d.self = Self /\ w.self = Self /\ t.self = Self
    /\ \A id \in Registered : ~IsNaN(wallets[id].balance)
    /\ \A i \in DOMAIN transactions : ~IsNaN(transactions[i].amount)

====
